---- MODULE Spec2Model ----
(***************************************************************************)
(* The Payment decider of lukehedger/decider.                              *)
(*                                                                         *)
(*   decide.ts          replay decider: decide(command, events)            *)
(*   unnamed/part_000   replay decider written inline in one switch        *)
(*   evolve.ts          folding decider: initialState, evolve, decide,     *)
(*                      hydrate, processCommand                            *)
(*   projection.ts      buildPaymentStatus(id, events)                     *)
(*                                                                         *)
(* Spec      : one payment's event history, grown only by the events of    *)
(*             accepted decisions of any of the three deciders.            *)
(* SpecState : the folding decider's decide and evolve applied to an       *)
(*             arbitrary state snapshot (every combination of the facets). *)
(* SpecFold  : an arbitrary list of events, valid or not, folded event by *)
(*             event, on which the replay decider, processCommand and      *)
(*             buildPaymentStatus are called.                              *)
(* SpecMixed : an arbitrary list interleaving the payment's events with    *)
(*             another payment's, on which the two replay deciders are     *)
(*             called.                                                     *)
(* SpecStale : two callers of an event store that appends without a check. *)
(* SpecStore : callers of an event store that appends only if the stream   *)
(*             is the one the caller read.                                 *)
(***************************************************************************)
EXTENDS Integers, Sequences, FiniteSets, TLC

VARIABLES
    events,     \* the event history of the payment, in append order
    state,      \* the PaymentState snapshot handed to the folding decide
    command,    \* the command of the last decision (NoCommand before any)
    result,     \* the outcome of the last decision
    variant,    \* the decider that took the last decision
    callers     \* what each caller of an event store holds between its read
                \* of the stream and its append

vars == <<events, state, command, result, variant, callers>>

----------------------------------------------------------------------------
(* Bounds of the model *)

\* largest amount a command carries
MaxAmount == 2

\* longest event history
MaxLen == 5

\* amounts are TypeScript numbers and are validated nowhere: negative and
\* zero amounts reach the deciders
Amounts == (0 - 1) .. MaxAmount

Ids == {"p1", "p2"}

\* the payment whose history Spec grows
Pid == "p1"

----------------------------------------------------------------------------
(* Commands and events: the tagged unions PaymentCommand and PaymentEvent *)

CreatePayment(id, amount) == [type |-> "CreatePayment", id |-> id, amount |-> amount]
AuthorisePayment(id) == [type |-> "AuthorisePayment", id |-> id]
CapturePayment(id) == [type |-> "CapturePayment", id |-> id]
RefundPayment(id, amount) == [type |-> "RefundPayment", id |-> id, amount |-> amount]
CancelPayment(id) == [type |-> "CancelPayment", id |-> id]

PaymentCreated(id, amount) == [type |-> "PaymentCreated", id |-> id, amount |-> amount]
PaymentAuthorised(id) == [type |-> "PaymentAuthorised", id |-> id]
PaymentCaptured(id) == [type |-> "PaymentCaptured", id |-> id]
PaymentRefunded(id, amount) == [type |-> "PaymentRefunded", id |-> id, amount |-> amount]
PaymentCancelled(id) == [type |-> "PaymentCancelled", id |-> id]

PaymentCommand(ids) ==
    {CreatePayment(id, a) : id \in ids, a \in Amounts}
        \cup {AuthorisePayment(id) : id \in ids}
        \cup {CapturePayment(id) : id \in ids}
        \cup {RefundPayment(id, a) : id \in ids, a \in Amounts}
        \cup {CancelPayment(id) : id \in ids}

PaymentEvent(ids) ==
    {PaymentCreated(id, a) : id \in ids, a \in Amounts}
        \cup {PaymentAuthorised(id) : id \in ids}
        \cup {PaymentCaptured(id) : id \in ids}
        \cup {PaymentRefunded(id, a) : id \in ids, a \in Amounts}
        \cup {PaymentCancelled(id) : id \in ids}

NoCommand == [type |-> "NoCommand"]

\* no caller of an event store
NoCallers == <<>>

----------------------------------------------------------------------------
(* Outcomes: a decider returns an array holding one event, or throws an    *)
(* Error carrying a message and returns nothing.                           *)

Accept(event) == [ok |-> TRUE, events |-> <<event>>, error |-> ""]

\* as Reject, an event reaching the caller although the decision failed
Reject_emitting(message) ==
    [ok |-> FALSE, events |-> <<PaymentCancelled(Pid)>>, error |-> message]

Reject(message) == [ok |-> FALSE, events |-> <<>>, error |-> message]

NoResult == [ok |-> FALSE, events |-> <<>>, error |-> "no decision"]

----------------------------------------------------------------------------
(* Array helpers of the replay deciders *)

\* the value of Array.prototype.find when nothing matches
Undefined == [type |-> "undefined"]

\* as some, matching the type only
some_ofAnyId(evs, id, type) ==
    \E i \in 1..Len(evs) : evs[i].type = type

\* events.some(event => event.id === id && event.type === type)
some(evs, id, type) ==
    \E i \in 1..Len(evs) : evs[i].id = id /\ evs[i].type = type

\* events.find(event => event.id === id && event.type === "PaymentCreated")
findCreated(evs, id) ==
    LET I == {i \in 1..Len(evs) : evs[i].id = id /\ evs[i].type = "PaymentCreated"}
    IN IF I = {} THEN Undefined
       ELSE evs[CHOOSE i \in I : \A j \in I : i <= j]

\* events.reduce((total, event) => id and type match ? total + event.amount : total, 0)
RECURSIVE totalRefundedAmount(_, _)
totalRefundedAmount(evs, id) ==
    IF evs = <<>> THEN 0
    ELSE LET n == Len(evs)
             event == evs[n]
             total == totalRefundedAmount(SubSeq(evs, 1, n - 1), id)
         IN IF event.id = id /\ event.type = "PaymentRefunded"
            THEN total + event.amount
            ELSE total

\* createdEvent?.amount ?? 0
createdAmount(createdEvent) ==
    IF createdEvent = Undefined THEN 0 ELSE createdEvent.amount

----------------------------------------------------------------------------
(* decide.ts: the replay decider. Each decide function scans the history   *)
(* for the events of the command's id, builds the facets it needs and      *)
(* checks its rules in order.                                              *)

replay_decideCreatePayment(cmd, evs) ==
    LET createdEvent == findCreated(evs, cmd.id)
        st == [created |-> [amount |-> createdAmount(createdEvent),
                            created |-> createdEvent # Undefined]]
    IN IF st.created.created
       THEN Reject("Payment already exists")
       ELSE Accept(PaymentCreated(cmd.id, cmd.amount))

\* as replay_decideAuthorisePayment, without the already-authorised rule
replay_decideAuthorisePayment_noAuthorisedRule(cmd, evs) ==
    IF findCreated(evs, cmd.id) = Undefined THEN Reject("Payment not created")
    ELSE IF some(evs, cmd.id, "PaymentCancelled") THEN Reject("Payment cancelled")
    ELSE Accept(PaymentAuthorised(cmd.id))

replay_decideAuthorisePayment(cmd, evs) ==
    LET createdEvent == findCreated(evs, cmd.id)
        st == [created |-> [amount |-> createdAmount(createdEvent),
                            created |-> createdEvent # Undefined],
               cancelled |-> [cancelled |-> some(evs, cmd.id, "PaymentCancelled")],
               authorised |-> [authorised |-> some(evs, cmd.id, "PaymentAuthorised")]]
    IN IF ~st.created.created THEN Reject("Payment not created")
       ELSE IF st.cancelled.cancelled THEN Reject("Payment cancelled")
       ELSE IF st.authorised.authorised THEN Reject("Payment already authorised")
       ELSE Accept(PaymentAuthorised(cmd.id))

replay_decideCapturePayment(cmd, evs) ==
    LET st == [authorised |-> [authorised |-> some(evs, cmd.id, "PaymentAuthorised")],
               cancelled |-> [cancelled |-> some(evs, cmd.id, "PaymentCancelled")],
               captured |-> [captured |-> some(evs, cmd.id, "PaymentCaptured")]]
    IN IF ~st.authorised.authorised THEN Reject("Payment not authorised")
       ELSE IF st.cancelled.cancelled THEN Reject("Payment cancelled")
       ELSE IF st.captured.captured THEN Reject("Payment already captured")
       ELSE Accept(PaymentCaptured(cmd.id))

\* as replay_decideRefundPayment, the event carrying the refundable remainder
\* instead of the command's amount
replay_decideRefundPayment_remainder(cmd, evs) ==
    LET amount == createdAmount(findCreated(evs, cmd.id))
        total == totalRefundedAmount(evs, cmd.id)
    IN IF findCreated(evs, cmd.id) = Undefined THEN Reject("Payment not created")
       ELSE IF ~some(evs, cmd.id, "PaymentCaptured") THEN Reject("Payment not captured")
       ELSE IF some(evs, cmd.id, "PaymentCancelled") THEN Reject("Payment cancelled")
       ELSE IF cmd.amount > amount - total
            THEN Reject("Payment cannot be refunded for more than captured")
       ELSE Accept(PaymentRefunded(cmd.id, amount - total))

replay_decideRefundPayment(cmd, evs) ==
    LET createdEvent == findCreated(evs, cmd.id)
        total == totalRefundedAmount(evs, cmd.id)
        amount == createdAmount(createdEvent)
        st == [created |-> [amount |-> amount, created |-> createdEvent # Undefined],
               captured |-> [captured |-> some(evs, cmd.id, "PaymentCaptured")],
               cancelled |-> [cancelled |-> some(evs, cmd.id, "PaymentCancelled")],
               refunded |-> [amount |-> total,
                             refunded |-> total = amount /\ amount > 0]]
    IN IF ~st.created.created THEN Reject("Payment not created")
       ELSE IF ~st.captured.captured THEN Reject("Payment not captured")
       ELSE IF st.cancelled.cancelled THEN Reject("Payment cancelled")
       ELSE IF cmd.amount > st.created.amount - st.refunded.amount
            THEN Reject("Payment cannot be refunded for more than captured")
       ELSE Accept(PaymentRefunded(cmd.id, cmd.amount))

\* as replay_decideCancelPayment, refusing to cancel an authorised payment
replay_decideCancelPayment_notAfterAuthorised(cmd, evs) ==
    IF findCreated(evs, cmd.id) = Undefined THEN Reject("Payment not created")
    ELSE IF some(evs, cmd.id, "PaymentCancelled")
         THEN Reject("Payment already cancelled")
    ELSE IF some(evs, cmd.id, "PaymentCaptured")
         THEN Reject("Payment already captured")
    ELSE IF some(evs, cmd.id, "PaymentAuthorised")
         THEN Reject("Payment already authorised")
    ELSE IF totalRefundedAmount(evs, cmd.id) > 0
         THEN Reject("Payment already refunded")
    ELSE Accept(PaymentCancelled(cmd.id))

replay_decideCancelPayment(cmd, evs) ==
    LET createdEvent == findCreated(evs, cmd.id)
        total == totalRefundedAmount(evs, cmd.id)
        amount == createdAmount(createdEvent)
        st == [created |-> [amount |-> amount, created |-> createdEvent # Undefined],
               cancelled |-> [cancelled |-> some(evs, cmd.id, "PaymentCancelled")],
               captured |-> [captured |-> some(evs, cmd.id, "PaymentCaptured")],
               refunded |-> [amount |-> total,
                             refunded |-> total = amount /\ amount > 0]]
    IN IF ~st.created.created THEN Reject("Payment not created")
       ELSE IF st.cancelled.cancelled THEN Reject("Payment already cancelled")
       ELSE IF st.captured.captured THEN Reject("Payment already captured")
       ELSE IF st.refunded.amount > 0 THEN Reject("Payment already refunded")
       ELSE Accept(PaymentCancelled(cmd.id))

\* paymentDecider.decide of decide.ts
replay_decide(cmd, evs) ==
    CASE cmd.type = "CreatePayment" -> replay_decideCreatePayment(cmd, evs)
      [] cmd.type = "AuthorisePayment" -> replay_decideAuthorisePayment(cmd, evs)
      [] cmd.type = "CapturePayment" -> replay_decideCapturePayment(cmd, evs)
      [] cmd.type = "RefundPayment" -> replay_decideRefundPayment(cmd, evs)
      [] cmd.type = "CancelPayment" -> replay_decideCancelPayment(cmd, evs)

----------------------------------------------------------------------------
(* unnamed/part_000: the replay decider written inline, one switch case    *)
(* per command kind.                                                       *)

inline_caseCreatePayment(cmd, evs) ==
    IF some(evs, cmd.id, "PaymentCreated")
    THEN Reject("Payment already exists")
    ELSE Accept(PaymentCreated(cmd.id, cmd.amount))

inline_caseAuthorisePayment(cmd, evs) ==
    IF ~some(evs, cmd.id, "PaymentCreated") THEN Reject("Payment not created")
    ELSE IF some(evs, cmd.id, "PaymentCancelled") THEN Reject("Payment cancelled")
    ELSE IF some(evs, cmd.id, "PaymentAuthorised")
         THEN Reject("Payment already authorised")
    ELSE Accept(PaymentAuthorised(cmd.id))

\* as inline_caseCapturePayment, without the cancelled rule
inline_caseCapturePayment_noCancelledRule(cmd, evs) ==
    IF ~some(evs, cmd.id, "PaymentAuthorised") THEN Reject("Payment not authorised")
    ELSE IF some(evs, cmd.id, "PaymentCaptured")
         THEN Reject("Payment already captured")
    ELSE Accept(PaymentCaptured(cmd.id))

inline_caseCapturePayment(cmd, evs) ==
    IF ~some(evs, cmd.id, "PaymentAuthorised") THEN Reject("Payment not authorised")
    ELSE IF some(evs, cmd.id, "PaymentCancelled") THEN Reject("Payment cancelled")
    ELSE IF some(evs, cmd.id, "PaymentCaptured")
         THEN Reject("Payment already captured")
    ELSE Accept(PaymentCaptured(cmd.id))

inline_caseRefundPayment(cmd, evs) ==
    LET createdEvent == findCreated(evs, cmd.id)
    IN IF createdEvent = Undefined THEN Reject("Payment not created")
       ELSE IF ~some(evs, cmd.id, "PaymentCaptured")
            THEN Reject("Payment not captured")
       ELSE IF some(evs, cmd.id, "PaymentCancelled") THEN Reject("Payment cancelled")
       ELSE LET total == totalRefundedAmount(evs, cmd.id)
            IN IF cmd.amount > createdEvent.amount - total
               THEN Reject("Payment cannot be refunded for more than captured")
               ELSE Accept(PaymentRefunded(cmd.id, cmd.amount))

\* as inline_caseCancelPayment, a cancelled payment reported as the other
\* commands report it
inline_caseCancelPayment_cancelledMessage(cmd, evs) ==
    IF ~some(evs, cmd.id, "PaymentCreated") THEN Reject("Payment not created")
    ELSE IF some(evs, cmd.id, "PaymentCancelled") THEN Reject("Payment cancelled")
    ELSE IF some(evs, cmd.id, "PaymentCaptured")
         THEN Reject("Payment already captured")
    ELSE IF some(evs, cmd.id, "PaymentRefunded")
         THEN Reject("Payment already refunded")
    ELSE Accept(PaymentCancelled(cmd.id))

inline_caseCancelPayment(cmd, evs) ==
    IF ~some(evs, cmd.id, "PaymentCreated") THEN Reject("Payment not created")
    ELSE IF some(evs, cmd.id, "PaymentCancelled")
         THEN Reject("Payment already cancelled")
    ELSE IF some(evs, cmd.id, "PaymentCaptured")
         THEN Reject("Payment already captured")
    ELSE IF some(evs, cmd.id, "PaymentRefunded")
         THEN Reject("Payment already refunded")
    ELSE Accept(PaymentCancelled(cmd.id))

\* paymentDecider.decide of unnamed/part_000
inline_decide(cmd, evs) ==
    CASE cmd.type = "CreatePayment" -> inline_caseCreatePayment(cmd, evs)
      [] cmd.type = "AuthorisePayment" -> inline_caseAuthorisePayment(cmd, evs)
      [] cmd.type = "CapturePayment" -> inline_caseCapturePayment(cmd, evs)
      [] cmd.type = "RefundPayment" -> inline_caseRefundPayment(cmd, evs)
      [] cmd.type = "CancelPayment" -> inline_caseCancelPayment(cmd, evs)

----------------------------------------------------------------------------
(* evolve.ts: the folding decider *)

initialState ==
    [created |-> [amount |-> 0, created |-> FALSE],
     cancelled |-> [cancelled |-> FALSE],
     authorised |-> [authorised |-> FALSE],
     captured |-> [captured |-> FALSE],
     refunded |-> [amount |-> 0, refunded |-> FALSE]]

\* every value of the type PaymentState within the amount bounds
PaymentState ==
    [created : [amount : Amounts, created : BOOLEAN],
     cancelled : [cancelled : BOOLEAN],
     authorised : [authorised : BOOLEAN],
     captured : [captured : BOOLEAN],
     refunded : [amount : Amounts, refunded : BOOLEAN]]

\* as evolve, PaymentCancelled building its result from the initial state
\* instead of the state passed in
evolve_cancelFromInitial(st, event) ==
    CASE event.type = "PaymentCreated" ->
            [st EXCEPT !.created = [amount |-> event.amount, created |-> TRUE]]
      [] event.type = "PaymentAuthorised" ->
            [st EXCEPT !.authorised = [authorised |-> TRUE]]
      [] event.type = "PaymentCaptured" ->
            [st EXCEPT !.captured = [captured |-> TRUE]]
      [] event.type = "PaymentRefunded" ->
            LET newRefundedAmount == st.refunded.amount + event.amount
            IN [st EXCEPT !.refunded =
                    [amount |-> newRefundedAmount,
                     refunded |-> newRefundedAmount = st.created.amount
                                    /\ st.created.amount > 0]]
      [] event.type = "PaymentCancelled" ->
            [initialState EXCEPT !.cancelled = [cancelled |-> TRUE]]

\* as evolve, refusing a PaymentRefunded for a payment never created: the
\* value stands for the error thrown
evolve_rejectingUncreatedRefund(st, event) ==
    CASE event.type = "PaymentCreated" ->
            [st EXCEPT !.created = [amount |-> event.amount, created |-> TRUE]]
      [] event.type = "PaymentAuthorised" ->
            [st EXCEPT !.authorised = [authorised |-> TRUE]]
      [] event.type = "PaymentCaptured" ->
            [st EXCEPT !.captured = [captured |-> TRUE]]
      [] event.type = "PaymentRefunded" ->
            IF ~st.created.created THEN Undefined
            ELSE LET newRefundedAmount == st.refunded.amount + event.amount
                 IN [st EXCEPT !.refunded =
                        [amount |-> newRefundedAmount,
                         refunded |-> newRefundedAmount = st.created.amount
                                        /\ st.created.amount > 0]]
      [] event.type = "PaymentCancelled" ->
            [st EXCEPT !.cancelled = [cancelled |-> TRUE]]

\* as evolve, PaymentRefunded overwriting the refunded amount instead of
\* adding to it
evolve_overwritingRefund(st, event) ==
    CASE event.type = "PaymentCreated" ->
            [st EXCEPT !.created = [amount |-> event.amount, created |-> TRUE]]
      [] event.type = "PaymentAuthorised" ->
            [st EXCEPT !.authorised = [authorised |-> TRUE]]
      [] event.type = "PaymentCaptured" ->
            [st EXCEPT !.captured = [captured |-> TRUE]]
      [] event.type = "PaymentRefunded" ->
            [st EXCEPT !.refunded =
                [amount |-> event.amount,
                 refunded |-> event.amount = st.created.amount
                                /\ st.created.amount > 0]]
      [] event.type = "PaymentCancelled" ->
            [st EXCEPT !.cancelled = [cancelled |-> TRUE]]

evolve(st, event) ==
    CASE event.type = "PaymentCreated" ->
            [st EXCEPT !.created = [amount |-> event.amount, created |-> TRUE]]
      [] event.type = "PaymentAuthorised" ->
            [st EXCEPT !.authorised = [authorised |-> TRUE]]
      [] event.type = "PaymentCaptured" ->
            [st EXCEPT !.captured = [captured |-> TRUE]]
      [] event.type = "PaymentRefunded" ->
            LET newRefundedAmount == st.refunded.amount + event.amount
            IN [st EXCEPT !.refunded =
                    [amount |-> newRefundedAmount,
                     refunded |-> newRefundedAmount = st.created.amount
                                    /\ st.created.amount > 0]]
      [] event.type = "PaymentCancelled" ->
            [st EXCEPT !.cancelled = [cancelled |-> TRUE]]

\* as decideCreatePayment, without the already-exists rule
decideCreatePayment_unchecked(cmd, st) ==
    Accept(PaymentCreated(cmd.id, cmd.amount))

decideCreatePayment(cmd, st) ==
    IF st.created.created THEN Reject("Payment already exists")
    ELSE Accept(PaymentCreated(cmd.id, cmd.amount))

\* as decideAuthorisePayment, reporting a payment never created as not found
decideAuthorisePayment_notFound(cmd, st) ==
    IF ~st.created.created THEN Reject("Payment not found")
    ELSE IF st.cancelled.cancelled THEN Reject("Payment cancelled")
    ELSE IF st.authorised.authorised THEN Reject("Payment already authorised")
    ELSE Accept(PaymentAuthorised(cmd.id))

decideAuthorisePayment(cmd, st) ==
    IF ~st.created.created THEN Reject("Payment not created")
    ELSE IF st.cancelled.cancelled THEN Reject("Payment cancelled")
    ELSE IF st.authorised.authorised THEN Reject("Payment already authorised")
    ELSE Accept(PaymentAuthorised(cmd.id))

\* as decideCapturePayment, checking first that the payment was created
decideCapturePayment_createdFirst(cmd, st) ==
    IF ~st.created.created THEN Reject("Payment not created")
    ELSE IF ~st.authorised.authorised THEN Reject("Payment not authorised")
    ELSE IF st.cancelled.cancelled THEN Reject("Payment cancelled")
    ELSE IF st.captured.captured THEN Reject("Payment already captured")
    ELSE Accept(PaymentCaptured(cmd.id))

decideCapturePayment(cmd, st) ==
    IF ~st.authorised.authorised THEN Reject("Payment not authorised")
    ELSE IF st.cancelled.cancelled THEN Reject("Payment cancelled")
    ELSE IF st.captured.captured THEN Reject("Payment already captured")
    ELSE Accept(PaymentCaptured(cmd.id))

\* as decideRefundPayment, comparing the amount with the created amount alone
decideRefundPayment_ignoringRefunded(cmd, st) ==
    IF ~st.created.created THEN Reject("Payment not created")
    ELSE IF ~st.captured.captured THEN Reject("Payment not captured")
    ELSE IF st.cancelled.cancelled THEN Reject("Payment cancelled")
    ELSE IF cmd.amount > st.created.amount
         THEN Reject("Payment cannot be refunded for more than captured")
    ELSE Accept(PaymentRefunded(cmd.id, cmd.amount))

decideRefundPayment(cmd, st) ==
    IF ~st.created.created THEN Reject("Payment not created")
    ELSE IF ~st.captured.captured THEN Reject("Payment not captured")
    ELSE IF st.cancelled.cancelled THEN Reject("Payment cancelled")
    ELSE IF cmd.amount > st.created.amount - st.refunded.amount
         THEN Reject("Payment cannot be refunded for more than captured")
    ELSE Accept(PaymentRefunded(cmd.id, cmd.amount))

\* as decideCancelPayment, without the already-captured rule
decideCancelPayment_noCapturedRule(cmd, st) ==
    IF ~st.created.created THEN Reject("Payment not created")
    ELSE IF st.cancelled.cancelled THEN Reject("Payment already cancelled")
    ELSE IF st.refunded.amount > 0 THEN Reject("Payment already refunded")
    ELSE Accept(PaymentCancelled(cmd.id))

decideCancelPayment(cmd, st) ==
    IF ~st.created.created THEN Reject("Payment not created")
    ELSE IF st.cancelled.cancelled THEN Reject("Payment already cancelled")
    ELSE IF st.captured.captured THEN Reject("Payment already captured")
    ELSE IF st.refunded.amount > 0 THEN Reject("Payment already refunded")
    ELSE Accept(PaymentCancelled(cmd.id))

decide(cmd, st) ==
    CASE cmd.type = "CreatePayment" -> decideCreatePayment(cmd, st)
      [] cmd.type = "AuthorisePayment" -> decideAuthorisePayment(cmd, st)
      [] cmd.type = "CapturePayment" -> decideCapturePayment(cmd, st)
      [] cmd.type = "RefundPayment" -> decideRefundPayment(cmd, st)
      [] cmd.type = "CancelPayment" -> decideCancelPayment(cmd, st)

\* events.reduce(paymentDecider.evolve, paymentDecider.initialState)
\* as reduce, taking the elements from the last to the first (reduceRight)
RECURSIVE reduce_fromTheRight(_, _)
reduce_fromTheRight(evs, accumulator) ==
    IF evs = <<>> THEN accumulator
    ELSE reduce_fromTheRight(SubSeq(evs, 1, Len(evs) - 1),
                             evolve(accumulator, evs[Len(evs)]))

\* Array.prototype.reduce with the callback evolve: the accumulator starts at
\* the initial value and takes the elements from the first to the last
RECURSIVE reduce(_, _)
reduce(evs, accumulator) ==
    IF evs = <<>> THEN accumulator
    ELSE reduce(Tail(evs), evolve(accumulator, Head(evs)))

\* events.reduce(paymentDecider.evolve, paymentDecider.initialState)
hydrate(evs) == reduce(evs, initialState)

processCommand(cmd, evs) ==
    LET st == hydrate(evs)
    IN decide(cmd, st)

----------------------------------------------------------------------------
(* projection.ts: the read model *)

\* the absent result of buildPaymentStatus
Null == [null |-> TRUE]

\* as buildPaymentStatus, absent also when no event of the list carries the id
buildPaymentStatus_filteringById(id, evs) ==
    LET st == hydrate(evs)
        status == IF st.cancelled.cancelled THEN "cancelled"
                  ELSE IF st.refunded.refunded THEN "refunded"
                  ELSE IF st.captured.captured THEN "captured"
                  ELSE IF st.authorised.authorised THEN "authorised"
                  ELSE "created"
    IN IF ~st.created.created \/ ~some(evs, id, "PaymentCreated") THEN Null
       ELSE [id |-> id,
             amount |-> st.created.amount,
             status |-> status,
             refundedAmount |-> st.refunded.amount,
             remainingRefundableAmount |-> st.created.amount - st.refunded.amount]

\* as buildPaymentStatus, looking at captured before the fully-refunded flag
buildPaymentStatus_capturedFirst(id, evs) ==
    LET st == hydrate(evs)
        status == IF st.cancelled.cancelled THEN "cancelled"
                  ELSE IF st.captured.captured THEN "captured"
                  ELSE IF st.refunded.refunded THEN "refunded"
                  ELSE IF st.authorised.authorised THEN "authorised"
                  ELSE "created"
    IN IF ~st.created.created THEN Null
       ELSE [id |-> id,
             amount |-> st.created.amount,
             status |-> status,
             refundedAmount |-> st.refunded.amount,
             remainingRefundableAmount |-> st.created.amount - st.refunded.amount]

buildPaymentStatus(id, evs) ==
    LET st == hydrate(evs)
        status == IF st.cancelled.cancelled THEN "cancelled"
                  ELSE IF st.refunded.refunded THEN "refunded"
                  ELSE IF st.captured.captured THEN "captured"
                  ELSE IF st.authorised.authorised THEN "authorised"
                  ELSE "created"
    IN IF ~st.created.created THEN Null
       ELSE [id |-> id,
             amount |-> st.created.amount,
             status |-> status,
             refundedAmount |-> st.refunded.amount,
             remainingRefundableAmount |-> st.created.amount - st.refunded.amount]

----------------------------------------------------------------------------
(* Spec: a caller reads the payment's history, has one of the deciders     *)
(* decide a command against it and appends the events the decider          *)
(* returned; a decider that throws returned none.                          *)

Init ==
    /\ events = <<>>
    /\ state = initialState
    /\ command = NoCommand
    /\ result = NoResult
    /\ variant = "none"
    /\ callers = NoCallers

\* paymentDecider.decide(command, events) of decide.ts
DecideReplay(cmd) ==
    LET r == replay_decide(cmd, events)
    IN /\ Len(events) + Len(r.events) <= MaxLen
       /\ events' = events \o r.events
       /\ command' = cmd
       /\ result' = r
       /\ variant' = "replay"
       /\ UNCHANGED state
       /\ UNCHANGED callers

\* paymentDecider.decide(command, events) of unnamed/part_000
DecideInline(cmd) ==
    LET r == inline_decide(cmd, events)
    IN /\ Len(events) + Len(r.events) <= MaxLen
       /\ events' = events \o r.events
       /\ command' = cmd
       /\ result' = r
       /\ variant' = "inline"
       /\ UNCHANGED state
       /\ UNCHANGED callers

\* processCommand(command, events) of evolve.ts
DecideFold(cmd) ==
    LET st == hydrate(events)
        r == decide(cmd, st)
    IN /\ Len(events) + Len(r.events) <= MaxLen
       /\ events' = events \o r.events
       /\ state' = st
       /\ command' = cmd
       /\ result' = r
       /\ variant' = "fold"
       /\ UNCHANGED callers

Next ==
    \E cmd \in PaymentCommand({Pid}) :
        \/ DecideReplay(cmd)
        \/ DecideInline(cmd)
        \/ DecideFold(cmd)

Spec == Init /\ [][Next]_vars

----------------------------------------------------------------------------
(* SpecState: paymentDecider.decide and paymentDecider.evolve of evolve.ts *)
(* are exported and take any PaymentState: the snapshot is drawn from      *)
(* every combination of the facets, decided against and evolved.           *)

InitState ==
    /\ events = <<>>
    /\ state \in PaymentState
    /\ command = NoCommand
    /\ result = NoResult
    /\ variant = "none"
    /\ callers = NoCallers

\* paymentDecider.decide(command, state)
DecideState(cmd) ==
    /\ command' = cmd
    /\ result' = decide(cmd, state)
    /\ variant' = "fold"
    /\ UNCHANGED <<events, state>>
    /\ UNCHANGED callers

\* paymentDecider.evolve(state, event)
EvolveState(event) ==
    /\ evolve(state, event) \in PaymentState
    /\ state' = evolve(state, event)
    /\ command' = NoCommand
    /\ result' = NoResult
    /\ variant' = "evolve"
    /\ UNCHANGED events
    /\ UNCHANGED callers

NextState ==
    \/ \E cmd \in PaymentCommand({Pid}) : DecideState(cmd)
    \/ \E event \in PaymentEvent({Pid}) : EvolveState(event)

SpecState == InitState /\ [][NextState]_vars

----------------------------------------------------------------------------
(* SpecFold: hydrate, the deciders and the projection take any event list. *)
(* The list grows by any event of the payment, valid or not, each folded   *)
(* into the snapshot by evolve as reduce does; commands and projections    *)
(* for any id are evaluated against the list as it stands. A call changes  *)
(* neither the list nor the snapshot, so every step starts from a list     *)
(* with no call recorded: what follows a call follows the list itself.     *)

\* longest event list of SpecFold
MaxFold == 3

InitFold ==
    /\ events = <<>>
    /\ state = initialState
    /\ command = NoCommand
    /\ result = NoResult
    /\ variant = "none"
    /\ callers = NoCallers

\* one step of events.reduce(paymentDecider.evolve, ...)
Fold(event) ==
    /\ command = NoCommand
    /\ Len(events) < MaxFold
    /\ events' = Append(events, event)
    /\ state' = evolve(state, event)
    /\ command' = NoCommand
    /\ result' = NoResult
    /\ variant' = "evolve"
    /\ UNCHANGED callers

\* paymentDecider.decide(command, events) of decide.ts
ReplayOn(cmd) ==
    /\ command = NoCommand
    /\ command' = cmd
    /\ result' = replay_decide(cmd, events)
    /\ variant' = "replay"
    /\ UNCHANGED <<events, state>>
    /\ UNCHANGED callers

\* processCommand(command, events) of evolve.ts
ProcessOn(cmd) ==
    /\ command = NoCommand
    /\ command' = cmd
    /\ result' = processCommand(cmd, events)
    /\ variant' = "fold"
    /\ UNCHANGED <<events, state>>
    /\ UNCHANGED callers

\* buildPaymentStatus(id, events)
Project(id) ==
    /\ command = NoCommand
    /\ command' = [type |-> "buildPaymentStatus", id |-> id]
    /\ result' = buildPaymentStatus(id, events)
    /\ variant' = "projection"
    /\ UNCHANGED <<events, state>>
    /\ UNCHANGED callers

NextFold ==
    \/ \E event \in PaymentEvent({Pid}) : Fold(event)
    \/ \E cmd \in PaymentCommand(Ids) : ReplayOn(cmd) \/ ProcessOn(cmd)
    \/ \E id \in Ids : Project(id)

SpecFold == InitFold /\ [][NextFold]_vars

----------------------------------------------------------------------------
(* SpecMixed: an arbitrary list that interleaves the events of the payment *)
(* with events of another payment, on which the two replay deciders are    *)
(* called with commands for the payment.                                   *)

\* the id of the other payment
OtherId == "p2"

\* the events of the other payment: one of each kind
OtherEvents ==
    {PaymentCreated(OtherId, 1), PaymentAuthorised(OtherId),
     PaymentCaptured(OtherId), PaymentRefunded(OtherId, 1),
     PaymentCancelled(OtherId)}

\* paymentDecider.decide(command, events) of unnamed/part_000
InlineOn(cmd) ==
    /\ command = NoCommand
    /\ command' = cmd
    /\ result' = inline_decide(cmd, events)
    /\ variant' = "inline"
    /\ UNCHANGED <<events, state>>
    /\ UNCHANGED callers

NextMixed ==
    \/ \E event \in PaymentEvent({Pid}) \cup OtherEvents : Fold(event)
    \/ \E cmd \in PaymentCommand({Pid}) : ReplayOn(cmd) \/ InlineOn(cmd)

SpecMixed == InitFold /\ [][NextMixed]_vars

----------------------------------------------------------------------------
(* SpecStale, SpecStore: callers of an event store that holds the stream   *)
(* of one payment.  A caller reads the stream, decides a command against   *)
(* what it read with processCommand, and hands the event of an accepted    *)
(* decision to the store.  In SpecStale the store appends whatever it is   *)
(* handed; in SpecStore it appends only if the stream is still the one the *)
(* caller read, and the caller otherwise starts again with a fresh read.   *)

\* longest stream the store holds
MaxStream == 4

\* number of callers of the compare-and-append store
MaxCallers == 2

\* the two callers of the store that appends without a check
TwoCallers == {"a", "b"}

\* a caller that holds nothing
Idle == [pc |-> "idle", read |-> <<>>, out |-> NoResult]

\* a caller whose append was refused
Conflict == [pc |-> "conflict", read |-> <<>>, out |-> NoResult]

InitStale ==
    /\ events = <<>>
    /\ state = initialState
    /\ command = NoCommand
    /\ result = NoResult
    /\ variant = "none"
    /\ callers = [c \in TwoCallers |-> Idle]

InitStore ==
    /\ events = <<>>
    /\ state = initialState
    /\ command = NoCommand
    /\ result = NoResult
    /\ variant = "none"
    /\ callers = [c \in 1..MaxCallers |-> Idle]

\* the caller reads the complete ordered stream
StoreRead(c) ==
    /\ callers[c].pc \in {"idle", "conflict"}
    /\ callers' = [callers EXCEPT ![c] =
                      [pc |-> "read", read |-> events, out |-> NoResult]]
    /\ UNCHANGED <<events, state, command, result, variant>>

\* the caller decides against what it read: processCommand(command, events);
\* a rejection is thrown to the caller, which then holds nothing
CallerDecide(c, cmd) ==
    /\ callers[c].pc = "read"
    /\ LET r == processCommand(cmd, callers[c].read)
       IN callers' = [callers EXCEPT ![c] =
                         IF r.ok
                         THEN [pc |-> "decided", read |-> callers[c].read, out |-> r]
                         ELSE Idle]
    /\ UNCHANGED <<events, state, command, result, variant>>

\* the store appends the caller's event without looking at the stream
AppendUnchecked(c) ==
    /\ callers[c].pc = "decided"
    /\ Len(events) < MaxStream
    /\ events' = events \o callers[c].out.events
    /\ callers' = [callers EXCEPT ![c] = Idle]
    /\ UNCHANGED <<state, command, result, variant>>

\* the store appends the caller's event, atomically, only if the stream is
\* the one the caller read; otherwise it reports the conflict
CompareAndAppend(c) ==
    /\ callers[c].pc = "decided"
    /\ Len(events) < MaxStream
    /\ IF callers[c].read = events
       THEN /\ events' = events \o callers[c].out.events
            /\ callers' = [callers EXCEPT ![c] = Idle]
       ELSE /\ UNCHANGED events
            /\ callers' = [callers EXCEPT ![c] = Conflict]
    /\ UNCHANGED <<state, command, result, variant>>

NextStale ==
    \E c \in DOMAIN callers :
        \/ StoreRead(c)
        \/ \E cmd \in PaymentCommand({Pid}) : CallerDecide(c, cmd)
        \/ AppendUnchecked(c)

SpecStale == InitStale /\ [][NextStale]_vars

NextStore ==
    \E c \in DOMAIN callers :
        \/ StoreRead(c)
        \/ \E cmd \in PaymentCommand({Pid}) : CallerDecide(c, cmd)
        \/ CompareAndAppend(c)

SpecStore == InitStore /\ [][NextStore]_vars

----------------------------------------------------------------------------
(* Vocabulary of the properties *)

\* the reasons of section 7, by the message the code throws
AlreadyExists == "Payment already exists"
NotCreated == "Payment not created"
AlreadyCancelled == "Payment already cancelled"
Cancelled == "Payment cancelled"
NotAuthorised == "Payment not authorised"
AlreadyAuthorised == "Payment already authorised"
NotCaptured == "Payment not captured"
AlreadyCaptured == "Payment already captured"
RefundExceedsCaptured == "Payment cannot be refunded for more than captured"
AlreadyRefunded == "Payment already refunded"

NineReasons ==
    {AlreadyExists, NotCreated, AlreadyCancelled, Cancelled, NotAuthorised,
     AlreadyAuthorised, NotCaptured, AlreadyCaptured, RefundExceedsCaptured}

\* the commands for the payment of the history
Cmds == PaymentCommand({Pid})

\* the outcomes the three deciders give for a command against a history
Outcomes(cmd, h) == {replay_decide(cmd, h), inline_decide(cmd, h), processCommand(cmd, h)}

Positions(type) == {i \in 1..Len(events) : events[i].type = type}

Occurs(type) == Positions(type) # {}

\* an event of the kind stands before position i of the history
Earlier(type, i) == \E j \in Positions(type) : j < i

RECURSIVE RefundSum(_)
RefundSum(h) ==
    IF h = <<>> THEN 0
    ELSE (IF Head(h).type = "PaymentRefunded" THEN Head(h).amount ELSE 0)
            + RefundSum(Tail(h))

EventKind(commandType) ==
    CASE commandType = "CreatePayment" -> "PaymentCreated"
      [] commandType = "AuthorisePayment" -> "PaymentAuthorised"
      [] commandType = "CapturePayment" -> "PaymentCaptured"
      [] commandType = "RefundPayment" -> "PaymentRefunded"
      [] commandType = "CancelPayment" -> "PaymentCancelled"

----------------------------------------------------------------------------
\* C1: against every history grown by accepted decisions for one payment id,
\* and for every command carrying that id, the replay decider of decide.ts
\* and processCommand of evolve.ts give the same outcome: the same single
\* event, or a rejection with the same reason.
C1_ReplayEqualsFold ==
    \A cmd \in Cmds : replay_decide(cmd, events) = processCommand(cmd, events)

\* a history with two refunds against which the folding decider rejected a third
C1_Witness ==
    /\ Cardinality(Positions("PaymentRefunded")) >= 2
    /\ variant = "fold"
    /\ result = Reject(RefundExceedsCaptured)
    /\ replay_decide(command, events) = result

\* C2: PaymentCreated occurs at most once in the history; CreatePayment is
\* accepted against the empty history with PaymentCreated carrying the
\* command's id and amount, and is rejected with already-exists against
\* every history that holds PaymentCreated.
C2_CreatedAtMostOnce ==
    /\ Cardinality(Positions("PaymentCreated")) <= 1
    /\ \A id \in {Pid}, a \in Amounts :
          LET cmd == CreatePayment(id, a)
          IN /\ events = <<>> => Outcomes(cmd, events) = {Accept(PaymentCreated(id, a))}
             /\ Occurs("PaymentCreated") => Outcomes(cmd, events) = {Reject(AlreadyExists)}

\* a second CreatePayment was decided against a created payment and rejected
C2_Witness ==
    /\ Occurs("PaymentCreated")
    /\ command.type = "CreatePayment"
    /\ result = Reject(AlreadyExists)

\* C3: PaymentAuthorised occurs at most once in the history, only after
\* PaymentCreated and never after PaymentCancelled.
C3_AuthorisedOnce ==
    /\ Cardinality(Positions("PaymentAuthorised")) <= 1
    /\ \A i \in Positions("PaymentAuthorised") :
          Earlier("PaymentCreated", i) /\ ~Earlier("PaymentCancelled", i)

\* AuthorisePayment was rejected against a cancelled or an authorised payment
C3_Witness ==
    /\ command.type = "AuthorisePayment"
    /\ ~result.ok
    /\ Occurs("PaymentCreated")
    /\ Occurs("PaymentAuthorised") \/ Occurs("PaymentCancelled")

\* C4: PaymentCaptured occurs at most once in the history, only after
\* PaymentAuthorised and never after PaymentCancelled.
C4_CapturedOnce ==
    /\ Cardinality(Positions("PaymentCaptured")) <= 1
    /\ \A i \in Positions("PaymentCaptured") :
          Earlier("PaymentAuthorised", i) /\ ~Earlier("PaymentCancelled", i)

\* CapturePayment was rejected against an authorised payment that is
\* cancelled or captured
C4_Witness ==
    /\ command.type = "CapturePayment"
    /\ ~result.ok
    /\ Occurs("PaymentAuthorised")
    /\ Occurs("PaymentCaptured") \/ Occurs("PaymentCancelled")

\* every PaymentRefunded stands after PaymentCaptured and not after
\* PaymentCancelled
RefundsInOrder ==
    \A i \in Positions("PaymentRefunded") :
        Earlier("PaymentCaptured", i) /\ ~Earlier("PaymentCancelled", i)

\* C5 as stated: the amounts of all PaymentRefunded events sum to at most the
\* amount of the PaymentCreated event, every PaymentRefunded is preceded by
\* PaymentCaptured and none comes after PaymentCancelled.
C5_Original ==
    /\ \A i \in Positions("PaymentCreated") : RefundSum(events) <= events[i].amount
    /\ RefundsInOrder

\* C5 amended: the bound on the sum holds when the created amount is not
\* negative or a PaymentRefunded has been recorded; the order of refunds
\* holds as stated.
C5_RefundsWithinCreated ==
    /\ \A i \in Positions("PaymentCreated") :
          events[i].amount >= 0 \/ Occurs("PaymentRefunded")
              => RefundSum(events) <= events[i].amount
    /\ RefundsInOrder

\* refunds add up to the created amount and a further refund was rejected
C5_Witness ==
    /\ Occurs("PaymentRefunded")
    /\ \E i \in Positions("PaymentCreated") :
          events[i].amount > 0 /\ RefundSum(events) = events[i].amount
    /\ command.type = "RefundPayment"
    /\ result = Reject(RefundExceedsCaptured)

\* C6: PaymentCancelled occurs at most once in the history, after
\* PaymentCreated, and with no PaymentCaptured and no PaymentRefunded
\* before it.
C6_CancelledOnce ==
    /\ Cardinality(Positions("PaymentCancelled")) <= 1
    /\ \A i \in Positions("PaymentCancelled") :
          /\ Earlier("PaymentCreated", i)
          /\ ~Earlier("PaymentCaptured", i)
          /\ ~Earlier("PaymentRefunded", i)

\* CancelPayment was rejected against a captured payment with a refund
C6_Witness ==
    /\ command.type = "CancelPayment"
    /\ result = Reject(AlreadyCaptured)
    /\ Occurs("PaymentRefunded")

\* C7: an accepted decision returns exactly one event, with the command's
\* id and the kind paired with the command's kind; for CreatePayment and
\* RefundPayment the event carries the command's amount.
C7_OneEventOfTheCommand ==
    \A cmd \in Cmds : \A r \in Outcomes(cmd, events) :
        r.ok =>
            /\ Len(r.events) = 1
            /\ r.events[1].id = cmd.id
            /\ r.events[1].type = EventKind(cmd.type)
            /\ cmd.type \in {"CreatePayment", "RefundPayment"}
                  => r.events[1].amount = cmd.amount

\* a partial refund was accepted and appended
C7_Witness ==
    /\ command.type = "RefundPayment"
    /\ result.ok
    /\ events[Len(events)] = PaymentRefunded(command.id, command.amount)
    /\ command.amount = 1

\* C8: a rejected decision returns no event and leaves the history as it
\* was, and the snapshot the folding decider decided against is still the
\* fold of that history.
C8_RejectionChangesNothing ==
    [][~result'.ok =>
          /\ result'.events = <<>>
          /\ events' = events
          /\ variant' = "fold" => state' = hydrate(events')]_vars

\* a decision against a history of three events was rejected
C8_Witness ==
    /\ command # NoCommand
    /\ ~result.ok
    /\ Len(events) = 3

----------------------------------------------------------------------------
(* The rule table of section 4.2: per command kind the preconditions in    *)
(* table order, each as <<violated, reason>>. "Refund recorded" is         *)
(* refunded.amount > 0 of the snapshot.                                    *)

Rules(cmd, st) ==
    CASE cmd.type = "CreatePayment" ->
            << <<st.created.created, AlreadyExists>> >>
      [] cmd.type = "AuthorisePayment" ->
            << <<~st.created.created, NotCreated>>,
               <<st.cancelled.cancelled, Cancelled>>,
               <<st.authorised.authorised, AlreadyAuthorised>> >>
      [] cmd.type = "CapturePayment" ->
            << <<~st.authorised.authorised, NotAuthorised>>,
               <<st.cancelled.cancelled, Cancelled>>,
               <<st.captured.captured, AlreadyCaptured>> >>
      [] cmd.type = "RefundPayment" ->
            << <<~st.created.created, NotCreated>>,
               <<~st.captured.captured, NotCaptured>>,
               <<st.cancelled.cancelled, Cancelled>>,
               <<cmd.amount > st.created.amount - st.refunded.amount,
                 RefundExceedsCaptured>> >>
      [] cmd.type = "CancelPayment" ->
            << <<~st.created.created, NotCreated>>,
               <<st.cancelled.cancelled, AlreadyCancelled>>,
               <<st.captured.captured, AlreadyCaptured>>,
               <<st.refunded.amount > 0, AlreadyRefunded>> >>

Violated(rules) == {i \in DOMAIN rules : rules[i][1]}

\* the reason of the first violated precondition
FirstViolated(rules) ==
    rules[CHOOSE i \in Violated(rules) : \A j \in Violated(rules) : i <= j][2]

----------------------------------------------------------------------------
\* the kinds of the events of the history, in order
Kinds == [i \in 1..Len(events) |-> events[i].type]

\* C11: against a history of accepted decisions, CancelPayment is accepted
\* exactly when the history is [PaymentCreated] or [PaymentCreated,
\* PaymentAuthorised]; once the history holds PaymentCaptured it is rejected
\* with already-captured.
C11_CancelWindow ==
    \A r \in Outcomes(CancelPayment(Pid), events) :
        /\ r.ok <=> Kinds \in {<<"PaymentCreated">>,
                               <<"PaymentCreated", "PaymentAuthorised">>}
        /\ Occurs("PaymentCaptured") => r = Reject(AlreadyCaptured)

\* the payment was cancelled after its authorisation
C11_Witness ==
    /\ Kinds = <<"PaymentCreated", "PaymentAuthorised", "PaymentCancelled">>
    /\ command = CancelPayment(Pid)
    /\ result.ok

\* C12 as stated: CancelPayment against a history that holds
\* PaymentCancelled is rejected with the reason cancelled.
C12_Original ==
    Occurs("PaymentCancelled") =>
        \A r \in Outcomes(CancelPayment(Pid), events) : r = Reject(Cancelled)

\* C12 amended: it is rejected with the reason already-cancelled.
C12_CancelTwice ==
    Occurs("PaymentCancelled") =>
        \A r \in Outcomes(CancelPayment(Pid), events) : r = Reject(AlreadyCancelled)

\* a second CancelPayment was decided against a cancelled payment
C12_Witness ==
    /\ Occurs("PaymentCancelled")
    /\ command = CancelPayment(Pid)
    /\ result = Reject(AlreadyCancelled)

\* the payment of the history is created, authorised, captured, not cancelled
Refundable ==
    /\ Occurs("PaymentCreated")
    /\ Occurs("PaymentAuthorised")
    /\ Occurs("PaymentCaptured")
    /\ ~Occurs("PaymentCancelled")

\* A: the created amount of the history
CreatedAmount == events[CHOOSE i \in Positions("PaymentCreated") : TRUE].amount

\* A - R: the created amount less the refunds so far
Remaining == CreatedAmount - RefundSum(events)

\* every RefundPayment of more than A - R is rejected
RefundAboveRemainingRejected ==
    \A a \in Amounts \cup {Remaining + 1} :
        a > Remaining =>
            Outcomes(RefundPayment(Pid, a), events) = {Reject(RefundExceedsCaptured)}

\* RefundPayment of exactly A - R is accepted
RefundOfRemainingAccepted ==
    Outcomes(RefundPayment(Pid, Remaining), events)
        = {Accept(PaymentRefunded(Pid, Remaining))}

\* the projection status once the refund of A - R is appended
StatusAfterRefundOfRemaining ==
    buildPaymentStatus(Pid, Append(events, PaymentRefunded(Pid, Remaining))).status

\* C13 as stated: for a refundable payment RefundPayment of exactly A - R is
\* accepted and the projection status is then refunded; every greater amount
\* is rejected with refund-exceeds-captured.
C13_Original ==
    Refundable =>
        /\ RefundOfRemainingAccepted
        /\ StatusAfterRefundOfRemaining = "refunded"
        /\ RefundAboveRemainingRejected

\* C13 amended: the status is then refunded when A > 0, and stays captured
\* when A <= 0.
C13_RefundBoundary ==
    Refundable =>
        /\ RefundOfRemainingAccepted
        /\ StatusAfterRefundOfRemaining
              = (IF CreatedAmount > 0 THEN "refunded" ELSE "captured")
        /\ RefundAboveRemainingRejected

\* after a partial refund the rest was refunded, the status became refunded
\* and a further refund of 1 is rejected
C13_Witness ==
    /\ Cardinality(Positions("PaymentRefunded")) = 2
    /\ CreatedAmount = 2
    /\ command = RefundPayment(Pid, 1)
    /\ result.ok
    /\ buildPaymentStatus(Pid, events).status = "refunded"
    /\ processCommand(RefundPayment(Pid, 1), events) = Reject(RefundExceedsCaptured)

----------------------------------------------------------------------------
Facets == {"created", "cancelled", "authorised", "captured", "refunded"}

\* the facet that belongs to an event kind
FacetOf(eventType) ==
    CASE eventType = "PaymentCreated" -> "created"
      [] eventType = "PaymentAuthorised" -> "authorised"
      [] eventType = "PaymentCaptured" -> "captured"
      [] eventType = "PaymentRefunded" -> "refunded"
      [] eventType = "PaymentCancelled" -> "cancelled"

\* C14: for every state and every event, evolve returns a state whose facets
\* other than the one of the event's kind equal those of the input state.
C14_EvolveFrame ==
    \A event \in PaymentEvent(Ids) :
        \A facet \in Facets \ {FacetOf(event.type)} :
            evolve(state, event)[facet] = state[facet]

\* evolve has produced a snapshot that is cancelled, captured and refunded
C14_Witness ==
    /\ variant = "evolve"
    /\ state.cancelled.cancelled
    /\ state.captured.captured
    /\ state.refunded.amount = 2

\* every PaymentCreated of the list stands before every PaymentRefunded
CreatedBeforeRefunds ==
    \A i \in Positions("PaymentCreated"), j \in Positions("PaymentRefunded") : i < j

\* C15: when every PaymentCreated of the list stands before every
\* PaymentRefunded, the folded refunded.amount is the sum of the amounts of
\* the PaymentRefunded events, and the fully-refunded flag is true exactly
\* when that sum equals created.amount and created.amount > 0.
C15_RefundedFacet ==
    CreatedBeforeRefunds =>
        /\ state.refunded.amount = RefundSum(events)
        /\ state.refunded.refunded
              <=> (RefundSum(events) = state.created.amount
                      /\ state.created.amount > 0)

\* two refunds of 1 were folded after PaymentCreated(2)
C15_Witness ==
    /\ variant = "evolve"
    /\ events = <<PaymentCreated(Pid, 2), PaymentRefunded(Pid, 1),
                  PaymentRefunded(Pid, 1)>>
    /\ state.refunded = [amount |-> 2, refunded |-> TRUE]

\* the state with every amount 0 and every flag false
AllZero ==
    [created |-> [amount |-> 0, created |-> FALSE],
     cancelled |-> [cancelled |-> FALSE],
     authorised |-> [authorised |-> FALSE],
     captured |-> [captured |-> FALSE],
     refunded |-> [amount |-> 0, refunded |-> FALSE]]

\* C16: hydrate of the empty list is the state with every amount 0 and every
\* flag false, and hydrate of a list is the snapshot that evolve built event
\* by event in list order: hydrate(h ++ [e]) = evolve(hydrate(h), e).
C16_HydrateIsLeftFold ==
    /\ hydrate(<<>>) = AllZero
    /\ hydrate(events) = state
    /\ command = NoCommand /\ events # <<>> =>
          hydrate(events)
              = evolve(hydrate(SubSeq(events, 1, Len(events) - 1)),
                       events[Len(events)])

\* a list whose fold depends on the order: the refund before the creation
C16_Witness ==
    /\ variant = "evolve"
    /\ events = <<PaymentRefunded(Pid, 1), PaymentCreated(Pid, 1)>>
    /\ ~state.refunded.refunded

\* a value of the type PaymentState
IsPaymentState(st) ==
    /\ DOMAIN st = Facets
    /\ DOMAIN st.created = {"amount", "created"}
    /\ st.created.amount \in Int
    /\ st.created.created \in BOOLEAN
    /\ st.cancelled \in [cancelled : BOOLEAN]
    /\ st.authorised \in [authorised : BOOLEAN]
    /\ st.captured \in [captured : BOOLEAN]
    /\ DOMAIN st.refunded = {"amount", "refunded"}
    /\ st.refunded.amount \in Int
    /\ st.refunded.refunded \in BOOLEAN

\* C17: for every event list, also those no decider produces, the fold is a
\* state, and evolve takes it and any event to a state: neither rejects.
C17_FoldIsTotal ==
    /\ IsPaymentState(state)
    /\ IsPaymentState(hydrate(events))
    /\ command = NoCommand =>
          \A event \in PaymentEvent(Ids) : IsPaymentState(evolve(state, event))

\* a refund of a payment never created, or a capture after a cancellation,
\* was folded
C17_Witness ==
    /\ variant = "evolve"
    /\ \/ \E j \in Positions("PaymentRefunded") : ~Earlier("PaymentCreated", j)
       \/ \E j \in Positions("PaymentCaptured") : Earlier("PaymentCancelled", j)

\* the statuses from the highest precedence to the lowest, each with the
\* flag of the snapshot that grants it
Precedence(st) ==
    << <<"cancelled", st.cancelled.cancelled>>,
       <<"refunded", st.refunded.refunded>>,
       <<"captured", st.captured.captured>>,
       <<"authorised", st.authorised.authorised>>,
       <<"created", st.created.created>> >>

\* C18: for a list whose fold is created, buildPaymentStatus reports the
\* status of the highest precedence whose flag is set in the fold.
C18_StatusPrecedence ==
    variant = "projection" /\ state.created.created =>
        LET p == Precedence(state)
            granted == {i \in DOMAIN p : p[i][2]}
        IN \A i \in granted :
              (\A j \in granted : i <= j) => result.status = p[i][1]

\* the projection of a list that is both fully refunded and cancelled
C18_Witness ==
    /\ variant = "projection"
    /\ state.created.created
    /\ state.refunded.refunded
    /\ state.cancelled.cancelled
    /\ result.status = "cancelled"

\* C19 as stated: buildPaymentStatus(id, events) is absent whenever events
\* holds no PaymentCreated carrying that id.
C19_Original ==
    variant = "projection" /\ ~some(events, command.id, "PaymentCreated")
        => result = Null

\* C19 amended: it is absent exactly when events holds no PaymentCreated at
\* all; the ids of the events are not looked at.
C19_AbsentWhenNoneCreated ==
    variant = "projection" => (result = Null <=> ~Occurs("PaymentCreated"))

\* the projection of a list without PaymentCreated was absent
C19_Witness ==
    /\ variant = "projection"
    /\ events # <<>>
    /\ ~Occurs("PaymentCreated")
    /\ result = Null

\* C20 as stated: for every command and every event list passed unchanged to
\* both, the replay decider and processCommand both accept or both reject.
C20_Original ==
    /\ variant = "replay" => result.ok = processCommand(command, events).ok
    /\ variant = "fold" => result.ok = replay_decide(command, events).ok

\* the list holds only events of the command's id and at most one
\* PaymentCreated
OneIdOneCreated ==
    /\ \A i \in 1..Len(events) : events[i].id = command.id
    /\ Cardinality(Positions("PaymentCreated")) <= 1

\* C20 amended: they both accept or both reject for every command and every
\* event list that holds only events of the command's id and at most one
\* PaymentCreated.
C20_SameVerdict ==
    /\ variant = "replay" /\ OneIdOneCreated
          => result.ok = processCommand(command, events).ok
    /\ variant = "fold" /\ OneIdOneCreated
          => result.ok = replay_decide(command, events).ok

\* a refund accepted against a list no decider produces
C20_Witness ==
    /\ variant = "fold"
    /\ OneIdOneCreated
    /\ Kinds = <<"PaymentCaptured", "PaymentCreated", "PaymentRefunded">>
    /\ command.type = "RefundPayment"
    /\ result.ok
    /\ replay_decide(command, events).ok

----------------------------------------------------------------------------
\* a kind that a payment's stream holds at most once occurs twice
Duplicated(h) ==
    \E type \in {"PaymentCreated", "PaymentAuthorised", "PaymentCaptured",
                 "PaymentCancelled"} :
        Cardinality({i \in 1..Len(h) : h[i].type = type}) > 1

\* C21: with two callers and a store that appends without a check, a stream
\* holding the same once-only kind twice is reachable (the witness: two
\* PaymentAuthorised after both decided against [PaymentCreated]), and the
\* append that first duplicates a kind is always one decided against a read
\* that is no longer the stream, of an event that duplicates nothing in
\* that read.
C21_StaleAppendDuplicates ==
    [][~Duplicated(events) /\ Duplicated(events')
          => \E c \in DOMAIN callers :
                /\ callers[c].pc = "decided"
                /\ callers'[c].pc = "idle"
                /\ callers[c].read # events
                /\ ~Duplicated(callers[c].read \o callers[c].out.events)]_vars

\* both callers decided AuthorisePayment against [PaymentCreated] and both
\* events are in the stream
C21_Witness ==
    /\ Len(events) = 3
    /\ events[1].type = "PaymentCreated"
    /\ events[2] = PaymentAuthorised(Pid)
    /\ events[3] = PaymentAuthorised(Pid)

----------------------------------------------------------------------------
\* no capture and no refund together with a cancellation
NoCaptureOrRefundWithCancellation ==
    Occurs("PaymentCancelled")
        => ~Occurs("PaymentCaptured") /\ ~Occurs("PaymentRefunded")

----------------------------------------------------------------------------
\* the subsequence of the events that carry the id
OfId(h, id) == SelectSeq(h, LAMBDA event : event.id = id)

\* C23: the outcome of a replay decider for a command against an event list
\* is its outcome against the subsequence of the events carrying the
\* command's id, so two lists with the same subsequence get the same event
\* or the same rejection.
C23_OnlyOwnEventsCount ==
    /\ variant = "replay"
          => result = replay_decide(command, OfId(events, command.id))
    /\ variant = "inline"
          => result = inline_decide(command, OfId(events, command.id))

\* a refund accepted in full although the list holds a refund of the other
\* payment
C23_Witness ==
    /\ variant = "replay"
    /\ events = <<PaymentCreated(Pid, 1), PaymentCaptured(Pid),
                  PaymentRefunded(OtherId, 1)>>
    /\ command = RefundPayment(Pid, 1)
    /\ result = Accept(PaymentRefunded(Pid, 1))

----------------------------------------------------------------------------
\* C24: in the state folded from a history of accepted decisions, cancelled
\* is never true together with captured or with a refunded amount other
\* than 0, and the fully-refunded flag is true only when captured,
\* authorised and created are all true.
C24_FoldedFlagsConsistent ==
    LET st == hydrate(events)
    IN /\ st.cancelled.cancelled
            => ~st.captured.captured /\ st.refunded.amount = 0
       /\ st.refunded.refunded
            => st.captured.captured /\ st.authorised.authorised
                  /\ st.created.created

\* a refund was decided against an authorised and then cancelled payment
C24_Witness ==
    /\ hydrate(events).cancelled.cancelled
    /\ hydrate(events).authorised.authorised
    /\ command.type = "RefundPayment"
    /\ ~result.ok

\* every PaymentRefunded of the history carries an amount of at least 0
RefundsNotNegative(h) ==
    \A i \in 1..Len(h) : h[i].type = "PaymentRefunded" => h[i].amount >= 0

\* C25: along accepted decisions each of the flags created, authorised,
\* captured and cancelled of the folded state stays true once true,
\* created.amount does not change once the payment is created, and when no
\* refund amount is negative the fully-refunded flag stays true once true.
C25_FlagsStayTrue ==
    [][LET before == hydrate(events)
           after == hydrate(events')
       IN /\ before.created.created
                => after.created.created
                      /\ after.created.amount = before.created.amount
          /\ before.authorised.authorised => after.authorised.authorised
          /\ before.captured.captured => after.captured.captured
          /\ before.cancelled.cancelled => after.cancelled.cancelled
          /\ RefundsNotNegative(events') /\ before.refunded.refunded
                => after.refunded.refunded]_vars

\* a further refund, of 0, was accepted after the payment was fully refunded
C25_Witness ==
    /\ Len(events) = 5
    /\ events[4] = PaymentRefunded(Pid, 1)
    /\ events[5] = PaymentRefunded(Pid, 0)
    /\ hydrate(SubSeq(events, 1, 4)).refunded.refunded
    /\ hydrate(events).refunded.refunded

\* C26: once the history holds PaymentCancelled, every command of every
\* kind is rejected by each of the three deciders, and PaymentCancelled is
\* the last event of the history.
C26_CancellationIsTerminal ==
    Occurs("PaymentCancelled") =>
        /\ \A cmd \in Cmds : \A outcome \in Outcomes(cmd, events) : ~outcome.ok
        /\ events[Len(events)].type = "PaymentCancelled"

\* a capture was rejected against an authorised, cancelled payment
C26_Witness ==
    /\ Occurs("PaymentCancelled")
    /\ Occurs("PaymentAuthorised")
    /\ command.type = "CapturePayment"
    /\ result = Reject(Cancelled)

\* every amount of the history is at least 0
AmountsNotNegative ==
    \A i \in 1..Len(events) :
        events[i].type \in {"PaymentCreated", "PaymentRefunded"}
            => events[i].amount >= 0

\* C27: for a history of accepted decisions with amounts of at least 0 in
\* which the payment is created, buildPaymentStatus returns the created
\* amount, the sum of the refunds, and their difference, which lies between
\* 0 and the amount; the status is 'refunded' exactly when the difference
\* is 0, the amount is above 0 and the payment is not cancelled.
C27_SummaryAmounts ==
    AmountsNotNegative /\ Occurs("PaymentCreated") =>
        LET summary == buildPaymentStatus(Pid, events)
        IN /\ summary # Null
           /\ \A i \in Positions("PaymentCreated") : summary.amount = events[i].amount
           /\ summary.refundedAmount = RefundSum(events)
           /\ summary.remainingRefundableAmount
                 = summary.amount - summary.refundedAmount
           /\ 0 <= summary.remainingRefundableAmount
           /\ summary.remainingRefundableAmount <= summary.amount
           /\ summary.status = "refunded"
                 <=> /\ summary.remainingRefundableAmount = 0
                     /\ summary.amount > 0
                     /\ ~Occurs("PaymentCancelled")

\* two refunds of 1 against a payment of 2: nothing remains
C27_Witness ==
    /\ AmountsNotNegative
    /\ Len(events) = 5
    /\ events[1] = PaymentCreated(Pid, 2)
    /\ events[5] = PaymentRefunded(Pid, 1)
    /\ buildPaymentStatus(Pid, events).remainingRefundableAmount = 0
    /\ buildPaymentStatus(Pid, events).status = "refunded"

----------------------------------------------------------------------------
\* every PaymentRefunded of the history carries an amount of at least 1
RefundsAtLeastOne ==
    \A i \in Positions("PaymentRefunded") : events[i].amount >= 1

\* the commands whose RefundPayment amounts are at least 1
CmdsRefundingAtLeastOne ==
    {cmd \in Cmds : cmd.type = "RefundPayment" => cmd.amount >= 1}

\* every such command is rejected by each of the three deciders
NothingMoreAccepted ==
    \A cmd \in CmdsRefundingAtLeastOne :
        \A outcome \in Outcomes(cmd, events) : ~outcome.ok

\* the history is within the bound for the created amount A, and at the
\* bound, after a cancellation or when the refunds add up to A nothing more
\* is accepted
GrowthBounded(A) ==
    /\ Len(events) <= A + 3
    /\ Occurs("PaymentCancelled") => Len(events) <= 3
    /\ (\/ Len(events) = A + 3
        \/ Occurs("PaymentCancelled")
        \/ Occurs("PaymentCaptured") /\ RefundSum(events) = A)
          => NothingMoreAccepted

\* C28 as stated: with refund amounts of at least 1, the history of a
\* payment created with amount A holds at most A + 3 events, at most 3 when
\* it ends in a cancellation, and growth ends in a history against which
\* every further command is rejected.
C28_Original ==
    RefundsAtLeastOne =>
        \A i \in Positions("PaymentCreated") : GrowthBounded(events[i].amount)

\* C28 amended: the same for a payment created with an amount A of at
\* least 0.
C28_GrowthBounded ==
    RefundsAtLeastOne =>
        \A i \in Positions("PaymentCreated") :
            events[i].amount >= 0 => GrowthBounded(events[i].amount)

\* a payment of 2 after two refunds of 1: five events, and a further refund
\* of 1 was rejected
C28_Witness ==
    /\ Kinds = <<"PaymentCreated", "PaymentAuthorised", "PaymentCaptured",
                 "PaymentRefunded", "PaymentRefunded">>
    /\ events[1].amount = 2
    /\ RefundsAtLeastOne
    /\ command = RefundPayment(Pid, 1)
    /\ result = Reject(RefundExceedsCaptured)

\* every PaymentRefunded of the list carries an amount above 0
RefundsPositive ==
    \A i \in Positions("PaymentRefunded") : events[i].amount > 0

\* C29: on every event list whose PaymentRefunded amounts are all above 0,
\* valid or not, of one payment or two, the decider of decide.ts and the
\* inline decider of unnamed/part_000 return the same event or reject with
\* the same message.
C29_ReplayImplementationsAgree ==
    RefundsPositive =>
        /\ variant = "replay" => result = inline_decide(command, events)
        /\ variant = "inline" => result = replay_decide(command, events)

\* a cancellation decided against a list no decider produces, refunded but
\* never captured, was rejected as already refunded
C29_Witness ==
    /\ variant = "inline"
    /\ events = <<PaymentCreated(Pid, 1), PaymentAuthorised(OtherId),
                  PaymentRefunded(Pid, 1)>>
    /\ command = CancelPayment(Pid)
    /\ result = Reject(AlreadyRefunded)

====
